---- MODULE Spec2Model ----
(***************************************************************************)
(* Model of src/data/module.rs of the ittech crate: the Module aggregate,  *)
(* its fallible lookups (Get) and subscript access (Index), the ordered    *)
(* pattern traversal, the active-channel aggregation and the construction  *)
(* of ModuleFlags from the two raw header words.                           *)
(*                                                                         *)
(* Representation.  An Option is a sequence of length at most one.  A      *)
(* bitflags value (ModuleFlags over u32, ActiveChannels over 64 channels)  *)
(* is the set of the positions of its 1 bits, so that `|` is union, `&` is *)
(* intersection and `<< 16` moves every position up by 16.  The fields of  *)
(* Module that no operation of module.rs reads (name, message, highlight,  *)
(* the two version tags, pitch_wheel_depth and the two 64-byte arrays) are *)
(* left out of the record.                                                 *)
(***************************************************************************)
EXTENDS Integers, Sequences, FiniteSets, TLC

VARIABLES
    module,   \* the Module under inspection
    raw,      \* the raw header data the next constructor call is given
    ret,      \* the outcome of the last call
    iters     \* the iterators handed out by ordered_patterns

vars == <<module, raw, ret, iters>>

----------------------------------------------------------------------------
(* Bounds of the model *)

\* longest orders list of the traversal specification
MaxOrders == 4
\* longest orders list of the aggregation specification
MaxChanOrders == 3
\* longest patterns collection
MaxPatterns == 2
\* longest samples / instruments collection
MaxLen == 2

----------------------------------------------------------------------------
(* Values *)

None == <<>>
Some(v) == <<v>>

U8 == 0..255

SampleId(n) == [kind |-> "SampleId", raw |-> n]
InstrumentId(n) == [kind |-> "InstrumentId", raw |-> n]
PatternId(n) == [kind |-> "PatternId", raw |-> n]

as_u8(id) == id.raw

Index(id) == [tag |-> "Index", id |-> id]
Separator == [tag |-> "Separator"]
EndOfSong == [tag |-> "EndOfSong"]

\* sequences over S of length at most n
SeqUpTo(S, n) == UNION {[1..k -> S] : k \in 0..n}

----------------------------------------------------------------------------
(* The Module record and the sets its fields are drawn from *)

\* the inclusive ranges of the RangedU8 fields of Module
GlobalVolumeMin == 0
GlobalVolumeMax == 128
SampleVolumeMin == 0
SampleVolumeMax == 128
SpeedMin_zero == 1 - 1
SpeedMin == 1
SpeedMax == 255
TempoMin == 31
TempoMax == 255
PanSeparationMin == 0
PanSeparationMax == 128

\* RangedU8::<LOW, HIGH>::new: the value when LOW <= v <= HIGH, an error otherwise
RangedU8_new(low, high, v) ==
    IF low <= v /\ v <= high THEN Some(v) ELSE None

\* the inhabitants of RangedU8<LOW, HIGH>: what a successful construction returns
RangedU8(low, high) ==
    {v \in U8 : RangedU8_new(low, high, v) # None}

\* ActiveChannels: a bitset over the 64 channel slots
NumChannels == 64
ActiveChannels_empty == {}
BitOr_bitor(a, b) == a \cup b

\* the channel sets the patterns of the model carry
ChannelSets == {{}, {0}, {1}, {0, NumChannels - 1}}

Pattern(chans) == [active_channels |-> chans]
Patterns == {Pattern(c) : c \in ChannelSets}
Samples == {"sample_a", "sample_b"}
Instruments == {"instrument_a", "instrument_b"}

\* the pattern identifiers the order lists of the model use
OrderIds == {PatternId(0), PatternId(1)}
Orders == {Index(id) : id \in OrderIds} \cup {Separator, EndOfSong}

----------------------------------------------------------------------------
(* ModuleFlags *)

Bit(n) == {n}
STEREO == Bit(0)
VOL_0_MIX_OPTIMIZATIONS == Bit(1)
USE_INSTRUMENTS == Bit(2)
LINEAR_SLIDES == Bit(3)
OLD_EFFECTS == Bit(4)
LINK_G_E_EFFECTS == Bit(5)
USE_MIDI_PITCH == Bit(6)
REQUEST_MIDI_CONFIG_EMBEDDED == Bit(7)
MESSAGE_ATTACHED == Bit(0 + 16)
MIDI_CONIFG_EMBEDDED == Bit(3 + 16)

\* ModuleFlags::all(): the union of the declared flags
ModuleFlags_all ==
    STEREO \cup VOL_0_MIX_OPTIMIZATIONS \cup USE_INSTRUMENTS \cup LINEAR_SLIDES
        \cup OLD_EFFECTS \cup LINK_G_E_EFFECTS \cup USE_MIDI_PITCH
        \cup REQUEST_MIDI_CONFIG_EMBEDDED \cup MESSAGE_ATTACHED
        \cup MIDI_CONIFG_EMBEDDED

\* the 1 bits of a 16-bit word
BitsOfU16(w) == {i \in 0..15 : (w \div (2 ^ i)) % 2 = 1}

\* u32::from(w) << n, for a 16-bit word w and n <= 16
Shl(w, n) == {i + n : i \in BitsOfU16(w)}

ModuleFlags_from_bits_truncate(bits) == bits \cap ModuleFlags_all

from_parts_keep_all(flags, special) ==
    Shl(flags, 0) \cup Shl(special, 16)

from_parts_no_shift(flags, special) ==
    ModuleFlags_from_bits_truncate(Shl(flags, 0) \cup Shl(special, 0))

from_parts(flags, special) ==
    LET bits == Shl(flags, 0) \cup Shl(special, 16)
    IN  ModuleFlags_from_bits_truncate(bits)

\* ModuleFlags::bits(): the numeric value of a flag set
RECURSIVE BitsValue(_)
BitsValue(bits) ==
    IF bits = {} THEN 0
    ELSE LET b == CHOOSE x \in bits : TRUE
         IN  (2 ^ b) + BitsValue(bits \ {b})

----------------------------------------------------------------------------
(* Lookups *)

\* <[T]>::get of the standard library
slice_get(s, i) == IF i < Len(s) THEN Some(s[i + 1]) ELSE None

get_SampleId_other_collection(self, index) ==
    slice_get(self.instruments, as_u8(index))

get_SampleId(self, index) ==
    slice_get(self.samples, as_u8(index))

get_InstrumentId(self, index) ==
    slice_get(self.instruments, as_u8(index))

get_PatternId_last_absent(self, index) ==
    IF as_u8(index) + 1 < Len(self.patterns)
    THEN Some(self.patterns[as_u8(index) + 1]) ELSE None

get_PatternId(self, index) ==
    slice_get(self.patterns, as_u8(index))

\* the dispatch on the identifier's type
get(self, index) ==
    CASE index.kind = "SampleId" -> get_SampleId(self, index)
      [] index.kind = "InstrumentId" -> get_InstrumentId(self, index)
      [] index.kind = "PatternId" -> get_PatternId(self, index)

\* impl_index_from_get!: the element when get finds one, a panic otherwise
index_from_get(self, index) ==
    LET found == get(self, index)
    IN  IF found # None
        THEN [outcome |-> "returned", val |-> found[1]]
        ELSE [outcome |-> "panicked"]

----------------------------------------------------------------------------
(* Ordered traversal and active-channel aggregation *)

\* the closure handed to filter_map; it looks the identifier up by reference,
\* which resolves to the same Get<PatternId> lookup
order_pattern(self, ord) ==
    IF ord.tag = "Index" THEN get(self, ord.id) ELSE None

\* FilterMap::next with the slice iterator at position pos, stopping at EndOfSong
RECURSIVE FilterMap_next_until_end_of_song(_, _)
FilterMap_next_until_end_of_song(self, pos) ==
    IF pos >= Len(self.orders) \/ self.orders[pos + 1].tag = "EndOfSong"
    THEN [item |-> None, pos |-> Len(self.orders)]
    ELSE LET found == order_pattern(self, self.orders[pos + 1])
         IN  IF found # None
             THEN [item |-> found, pos |-> pos + 1]
             ELSE FilterMap_next_until_end_of_song(self, pos + 1)

\* FilterMap::next with the slice iterator at position pos: the next entry the
\* closure maps to Some, and the position after it
RECURSIVE FilterMap_next(_, _)
FilterMap_next(self, pos) ==
    IF pos >= Len(self.orders)
    THEN [item |-> None, pos |-> Len(self.orders)]
    ELSE LET found == order_pattern(self, self.orders[pos + 1])
         IN  IF found # None
             THEN [item |-> found, pos |-> pos + 1]
             ELSE FilterMap_next(self, pos + 1)

\* what an iterator started at position pos yields until it returns None
RECURSIVE Collect(_, _)
Collect(self, pos) ==
    LET step == FilterMap_next(self, pos)
    IN  IF step.item = None THEN <<>>
        ELSE <<step.item[1]>> \o Collect(self, step.pos)

\* the whole sequence ordered_patterns yields
ordered_patterns(self) == Collect(self, 0)

\* Iterator::fold with BitOr::bitor
RECURSIVE fold_bitor(_, _)
fold_bitor(items, acc) ==
    IF items = <<>> THEN acc
    ELSE fold_bitor(Tail(items), BitOr_bitor(acc, Head(items)))

\* a fold that keeps the last item instead of combining
RECURSIVE fold_last(_, _)
fold_last(items, acc) ==
    IF items = <<>> THEN acc ELSE fold_last(Tail(items), Head(items))

\* a fold that combines with exclusive or
RECURSIVE fold_xor(_, _)
fold_xor(items, acc) ==
    IF items = <<>> THEN acc
    ELSE fold_xor(Tail(items), (acc \ Head(items)) \cup (Head(items) \ acc))

\* Iterator::map(|pat| pat.active_channels)
map_active_channels(pats) == [k \in DOMAIN pats |-> pats[k].active_channels]

active_channels_all_patterns(self) ==
    fold_bitor(map_active_channels(self.patterns), ActiveChannels_empty)

active_channels_last(self) ==
    fold_last(map_active_channels(ordered_patterns(self)), ActiveChannels_empty)

active_channels_xor(self) ==
    fold_xor(map_active_channels(ordered_patterns(self)), ActiveChannels_empty)

active_channels(self) ==
    fold_bitor(map_active_channels(ordered_patterns(self)), ActiveChannels_empty)

----------------------------------------------------------------------------
(* State *)

\* a Module with empty collections and Impulse Tracker's usual header values
BaseModule ==
    [ orders |-> <<>>, instruments |-> <<>>, samples |-> <<>>, patterns |-> <<>>,
      flags |-> from_parts(0, 0),
      global_volume |-> GlobalVolumeMax, sample_volume |-> SampleVolumeMax,
      speed |-> SpeedMax, tempo |-> TempoMax, pan_separation |-> PanSeparationMax ]

NoCall == [op |-> "none"]

IterIds == {1, 2}
NoIter == [state |-> "none", pos |-> 0, out |-> <<>>]

\* the iterator ordered_patterns returns: the slice iterator at the first order
ordered_patterns_iter_shared_cursor(self) ==
    [state |-> "live", pos |-> iters[1].pos, out |-> <<>>]

ordered_patterns_iter(self) ==
    [state |-> "live", pos |-> 0, out |-> <<>>]

----------------------------------------------------------------------------
(* Lookup specification: Get and Index on the three collections *)

\* raw identifier values around the collections' lengths, and the largest byte
LookupRaw == (0..(MaxLen + MaxPatterns)) \cup {255}

LookupPatterns == {Pattern({0}), Pattern({1})}

InitGet ==
    /\ module \in
         { [BaseModule EXCEPT !.samples = s, !.instruments = i, !.patterns = p] :
             s \in SeqUpTo(Samples, MaxLen),
             i \in SeqUpTo(Instruments, MaxLen),
             p \in SeqUpTo(LookupPatterns, MaxPatterns) }
    /\ raw = [flags |-> 0, special |-> 0]
    /\ ret = NoCall
    /\ iters = [i \in IterIds |-> NoIter]

GetSample ==
    \E n \in LookupRaw :
        /\ ret' = [op |-> "get", index |-> SampleId(n),
                   val |-> get_SampleId(module, SampleId(n))]
        /\ UNCHANGED <<module, raw, iters>>

GetInstrument ==
    \E n \in LookupRaw :
        /\ ret' = [op |-> "get", index |-> InstrumentId(n),
                   val |-> get_InstrumentId(module, InstrumentId(n))]
        /\ UNCHANGED <<module, raw, iters>>

GetPattern ==
    \E n \in LookupRaw :
        /\ ret' = [op |-> "get", index |-> PatternId(n),
                   val |-> get_PatternId(module, PatternId(n))]
        /\ UNCHANGED <<module, raw, iters>>

IndexSample ==
    \E n \in LookupRaw :
        /\ ret' = [op |-> "index", index |-> SampleId(n),
                   res |-> index_from_get(module, SampleId(n))]
        /\ UNCHANGED <<module, raw, iters>>

IndexInstrument ==
    \E n \in LookupRaw :
        /\ ret' = [op |-> "index", index |-> InstrumentId(n),
                   res |-> index_from_get(module, InstrumentId(n))]
        /\ UNCHANGED <<module, raw, iters>>

IndexPattern ==
    \E n \in LookupRaw :
        /\ ret' = [op |-> "index", index |-> PatternId(n),
                   res |-> index_from_get(module, PatternId(n))]
        /\ UNCHANGED <<module, raw, iters>>

NextGet ==
    \/ GetSample
    \/ GetInstrument
    \/ GetPattern
    \/ IndexSample
    \/ IndexInstrument
    \/ IndexPattern

SpecGet == InitGet /\ [][NextGet]_vars

\* the collection an identifier of the given kind addresses
CollectionOf(kind) ==
    CASE kind = "SampleId" -> module.samples
      [] kind = "InstrumentId" -> module.instruments
      [] kind = "PatternId" -> module.patterns

\* C1: Module::get(id) returns Some(element at position id of the matching
\* collection) exactly when id's raw value is below that collection's length,
\* and None otherwise, whatever the other two collections hold.
C1_GetSomeIffInRange ==
    ret.op = "get" =>
        LET n == ret.index.raw
            coll == CollectionOf(ret.index.kind)
        IN  /\ (ret.val # None) <=> (n < Len(coll))
            /\ n < Len(coll) => ret.val = Some(coll[n + 1])
            /\ n >= Len(coll) => ret.val = None

\* a sample lookup just past the end of samples answered None although the
\* instruments collection has an element at that position
C1_Witness ==
    /\ ret.op = "get"
    /\ ret.index.kind = "SampleId"
    /\ ret.index.raw = Len(module.samples)
    /\ ret.index.raw < Len(module.instruments)
    /\ ret.val = None

\* a lookup at the last valid position answered Some
C1_WitnessSome ==
    /\ ret.op = "get"
    /\ ret.index.kind = "PatternId"
    /\ ret.index.raw = 1
    /\ Len(module.patterns) = 2
    /\ ret.val = Some(module.patterns[2])

\* C10: subscript access returns the element Module::get finds whenever get
\* answers Some, and panics exactly when get answers None, that is when the
\* identifier's raw value is at or past the matching collection's length.
C10_IndexReturnsOrPanics ==
    ret.op = "index" =>
        LET n == ret.index.raw
            coll == CollectionOf(ret.index.kind)
            found == get(module, ret.index)
        IN  /\ (ret.res.outcome = "panicked") <=> (n >= Len(coll))
            /\ (ret.res.outcome = "panicked") <=> (found = None)
            /\ n < Len(coll) =>
                 /\ ret.res.outcome = "returned"
                 /\ ret.res.val = coll[n + 1]
                 /\ Some(ret.res.val) = found

\* subscript access just past the end of a non-empty patterns collection panicked
C10_Witness ==
    /\ ret.op = "index"
    /\ ret.index.kind = "PatternId"
    /\ Len(module.patterns) > 0
    /\ ret.index.raw = Len(module.patterns)
    /\ ret.res.outcome = "panicked"

----------------------------------------------------------------------------
(* Traversal specification: iterators over ordered_patterns *)

\* pattern k of the traversal specification is active on channel k alone
TraversalPatterns == {[k \in 1..n |-> Pattern({k - 1})] : n \in 0..MaxPatterns}

Init ==
    /\ module \in
         { [BaseModule EXCEPT !.orders = o, !.patterns = p] :
             o \in SeqUpTo(Orders, MaxOrders), p \in TraversalPatterns }
    /\ raw = [flags |-> 0, special |-> 0]
    /\ ret = NoCall
    /\ iters = [i \in IterIds |-> NoIter]

\* a call of ordered_patterns: a fresh iterator takes slot i
OrderedPatterns ==
    \E i \in IterIds :
        /\ iters' = [iters EXCEPT ![i] = ordered_patterns_iter(module)]
        /\ UNCHANGED <<module, raw, ret>>

\* a call of next on the iterator in slot i
IterNext ==
    \E i \in IterIds :
        /\ iters[i].state = "live"
        /\ LET step == FilterMap_next(module, iters[i].pos)
           IN  iters' = [iters EXCEPT ![i] =
                   IF step.item = None
                   THEN [state |-> "done", pos |-> step.pos, out |-> iters[i].out]
                   ELSE [state |-> "live", pos |-> step.pos,
                         out |-> Append(iters[i].out, step.item[1])]]
        /\ UNCHANGED <<module, raw, ret>>

\* a call of active_channels
ActiveChannels ==
    /\ ret' = [op |-> "active_channels", val |-> active_channels(module)]
    /\ UNCHANGED <<module, raw, iters>>

Next ==
    \/ OrderedPatterns
    \/ IterNext
    \/ ActiveChannels

Spec == Init /\ [][Next]_vars

\* the order entries that name a pattern the module has
ValidEntry(self, ord) ==
    ord.tag = "Index" /\ ord.id.raw < Len(self.patterns)

\* the sequence the orders list describes: the pattern of every valid Index
\* entry, in the order of the entries
ExpectedPatterns(self) ==
    LET Valid(ord) == ValidEntry(self, ord)
        kept == SelectSeq(self.orders, Valid)
    IN  [k \in 1..Len(kept) |-> self.patterns[kept[k].id.raw + 1]]

ExampleOrders ==
    <<Separator, Index(PatternId(0)), EndOfSong, Index(PatternId(0))>>

\* C2: ordered_patterns yields patterns[n] for every Index(n) entry with
\* n < len(patterns), in the order of the entries and once per entry, and
\* nothing for Separator, EndOfSong and dangling entries; it does not stop at
\* EndOfSong.  The orders [Separator, Index(0), EndOfSong, Index(0)] yield
\* pattern 0 twice and empty orders yield nothing.
C2_OrderedPatternsSequence ==
    /\ ordered_patterns(module) = ExpectedPatterns(module)
    /\ \A i \in IterIds :
         iters[i].state = "done" => iters[i].out = ExpectedPatterns(module)
    /\ (module.orders = ExampleOrders /\ Len(module.patterns) > 0) =>
         ordered_patterns(module) = <<module.patterns[1], module.patterns[1]>>
    /\ module.orders = <<>> => ordered_patterns(module) = <<>>

\* a finished traversal of the example orders yielded pattern 0 twice
C2_Witness ==
    /\ module.orders = ExampleOrders
    /\ Len(module.patterns) > 0
    /\ iters[1].state = "done"
    /\ iters[1].out = <<module.patterns[1], module.patterns[1]>>

IsPrefix(s, t) ==
    Len(s) <= Len(t) /\ \A k \in 1..Len(s) : s[k] = t[k]

\* C8: a traversal yields at most len(orders) elements and every next moves it
\* forward, so it ends; no call changes the Module; and every traversal, also
\* one started while another is partly consumed, yields the same sequence.
C8_TraversalFiniteRestartablePure ==
    /\ [][module' = module]_vars
    /\ [][\A i \in IterIds :
            (iters[i].state = "live" /\ iters'[i] # iters[i]
                /\ iters'[i].pos # 0) =>
                \/ iters'[i].state = "done" /\ iters'[i].out = iters[i].out
                \/ /\ iters'[i].pos > iters[i].pos
                   /\ Len(iters'[i].out) = Len(iters[i].out) + 1]_vars
    /\ [](\A i \in IterIds :
            /\ iters[i].pos <= Len(module.orders)
            /\ Len(iters[i].out) <= iters[i].pos
            /\ IsPrefix(iters[i].out, ordered_patterns(module))
            /\ iters[i].state = "done" =>
                 iters[i].out = ordered_patterns(module))
    /\ [](\A i, j \in IterIds :
            (iters[i].state = "done" /\ iters[j].state = "done") =>
                iters[i].out = iters[j].out)

\* one traversal ran to its end with two elements while another is partly
\* consumed, and active_channels has been called
C8_Witness ==
    /\ iters[1].state = "live"
    /\ Len(iters[1].out) = 1
    /\ iters[2].state = "done"
    /\ Len(iters[2].out) = 2
    /\ ret.op = "active_channels"

----------------------------------------------------------------------------
(* Aggregation specification: active_channels over richer channel sets *)

InitChannels ==
    /\ module \in
         { [BaseModule EXCEPT !.orders = o, !.patterns = p] :
             o \in SeqUpTo(Orders, MaxChanOrders),
             p \in SeqUpTo(Patterns, MaxPatterns) }
    /\ raw = [flags |-> 0, special |-> 0]
    /\ ret = NoCall
    /\ iters = [i \in IterIds |-> NoIter]

NextChannels == ActiveChannels

SpecChannels == InitChannels /\ [][NextChannels]_vars

Range(f) == {f[x] : x \in DOMAIN f}

\* the positions in patterns that some valid Index entry of orders names
Referenced(self) ==
    {ord.id.raw : ord \in {o \in Range(self.orders) : ValidEntry(self, o)}}

\* C3: active_channels is the union, from the empty set, of the channel sets
\* of exactly the patterns some valid Index entry references; a pattern no
\* order references contributes nothing, and without Index entries the
\* result is empty.
C3_ActiveChannelsUnionOfReferenced ==
    ret.op = "active_channels" =>
        /\ ret.val =
             UNION {module.patterns[n + 1].active_channels : n \in Referenced(module)}
        /\ (\A k \in DOMAIN module.orders : module.orders[k].tag # "Index") =>
             ret.val = ActiveChannels_empty

\* only a Separator in orders, a pattern with active channels, an empty result
C3_Witness ==
    /\ ret.op = "active_channels"
    /\ module.orders = <<Separator>>
    /\ Len(module.patterns) > 0
    /\ module.patterns[1].active_channels # {}
    /\ ret.val = {}

Permuted(self, p) ==
    [self EXCEPT !.orders = [k \in 1..Len(self.orders) |-> self.orders[p[k]]]]

\* C4: a Module with the same patterns and a permutation of the orders has
\* the same active channels.
C4_ActiveChannelsOrderIndependent ==
    ret.op = "active_channels" =>
        \A p \in Permutations(1..Len(module.orders)) :
            active_channels(Permuted(module, p)) = ret.val

\* two valid entries whose patterns use different channels, both in the result
C4_Witness ==
    /\ ret.op = "active_channels"
    /\ Len(module.patterns) = 2
    /\ module.patterns[1].active_channels = {0}
    /\ module.patterns[2].active_channels = {1}
    /\ module.orders = <<Index(PatternId(1)), EndOfSong, Index(PatternId(0))>>
    /\ ret.val = {0, 1}

\* orders with entry e inserted after position pos
Inserted(self, pos, e) ==
    [self EXCEPT !.orders =
        SubSeq(self.orders, 1, pos) \o <<e>> \o SubSeq(self.orders, pos + 1, Len(self.orders))]

\* raw identifier values that can lie past the end of patterns
DanglingRaw == (0..MaxPatterns) \cup {255}

\* the entries C9 speaks of: a copy of an Index entry orders already holds,
\* a Separator, an EndOfSong, or an Index past the end of patterns
NeutralEntries(self) ==
    {o \in Range(self.orders) : o.tag = "Index"}
        \cup {Separator, EndOfSong}
        \cup {Index(PatternId(m)) : m \in {n \in DanglingRaw : n >= Len(self.patterns)}}

\* C9: inserting, at any position, a copy of an Index entry already in
\* orders, a Separator, an EndOfSong or a dangling Index leaves
\* active_channels unchanged.
C9_ActiveChannelsIgnoresRepetition ==
    ret.op = "active_channels" =>
        \A pos \in 0..Len(module.orders) :
            \A e \in NeutralEntries(module) :
                active_channels(Inserted(module, pos, e)) = ret.val

\* a pattern with active channels referenced twice, and counted
C9_Witness ==
    /\ ret.op = "active_channels"
    /\ Len(module.patterns) > 0
    /\ module.patterns[1].active_channels = {0, NumChannels - 1}
    /\ module.orders = <<Index(PatternId(0)), Separator, Index(PatternId(0))>>
    /\ ret.val = {0, NumChannels - 1}

----------------------------------------------------------------------------
(* Flags specification: ModuleFlags::from_parts on raw header words *)

U16Max == 65535

\* header words: none, all, every single bit, every single bit cleared, and
\* the low byte, the high byte, the two defined special bits and their complement
HeaderWords ==
    {0, U16Max, 255, 65280, 9, 65526}
        \cup {2 ^ i : i \in 0..15}
        \cup {U16Max - (2 ^ i) : i \in 0..15}

\* the header holds two raw words, and the module decoded from it their flag set
InitFlags ==
    /\ raw \in [flags : HeaderWords, special : HeaderWords]
    /\ module = [BaseModule EXCEPT !.flags = from_parts(raw.flags, raw.special)]
    /\ ret = NoCall
    /\ iters = [i \in IterIds |-> NoIter]

\* a call of ModuleFlags::from_parts on the header's words
FromParts ==
    /\ ret' = [op |-> "from_parts", flags |-> raw.flags, special |-> raw.special,
               val |-> from_parts(raw.flags, raw.special)]
    /\ UNCHANGED <<module, raw, iters>>

NextFlags == FromParts

SpecFlags == InitFlags /\ [][NextFlags]_vars

\* bit b of word w
BitSet(w, b) == (w \div (2 ^ b)) % 2 = 1

\* the value of (flags | special << 16) & 0x000900FF, by arithmetic
MaskedValue(flags, special) ==
    (flags % 256) + 65536 * ((special % 2) + 8 * ((special \div 8) % 2))

\* C5: from_parts(flags, special) is (flags | special << 16) masked to bits
\* 0-7, 16 and 19: every recognised bit of the input is set, no other bit is;
\* all-ones words give exactly the ten documented bits (0x000900FF) and
\* from_parts(1, 1) gives exactly STEREO and MESSAGE_ATTACHED.
C5_FromPartsMasksToRecognisedBits ==
    ret.op = "from_parts" =>
        /\ BitsValue(ret.val) = MaskedValue(ret.flags, ret.special)
        /\ ret.val \subseteq ((0..7) \cup {16, 19})
        /\ \A b \in 0..7 : BitSet(ret.flags, b) => b \in ret.val
        /\ BitSet(ret.special, 0) => 16 \in ret.val
        /\ BitSet(ret.special, 3) => 19 \in ret.val
        /\ (ret.flags = U16Max /\ ret.special = U16Max) =>
             /\ BitsValue(ret.val) = 590079
             /\ Cardinality(ret.val) = 10
        /\ (ret.flags = 1 /\ ret.special = 1) =>
             ret.val = STEREO \cup MESSAGE_ATTACHED

\* from_parts on two all-ones words returned the ten documented bits
C5_Witness ==
    /\ ret.op = "from_parts"
    /\ ret.flags = U16Max
    /\ ret.special = U16Max
    /\ BitsValue(ret.val) = 590079

\* the bits of the combined word flags | special << 16
CombinedBits(flags, special) ==
    {b \in 0..15 : BitSet(flags, b)} \cup {b + 16 : b \in {c \in 0..15 : BitSet(special, c)}}

\* C7 as stated: the bits of the raw header words that are no defined flag
\* are kept in the flag set from_parts builds.
C7_UnknownBitsPreserved ==
    ret.op = "from_parts" =>
        CombinedBits(ret.flags, ret.special) \subseteq ret.val

\* C7 as amended: the flag set from_parts builds, and so the Module's flags
\* field, keeps exactly the defined bits (0-7, 16, 19) of the raw header
\* words; every other bit of the words is cleared.
C7_UnknownBitsDropped ==
    LET defined == (0..7) \cup {16, 19}
        Kept(flags, special) == CombinedBits(flags, special) \cap defined
    IN  /\ module.flags = Kept(raw.flags, raw.special)
        /\ ret.op = "from_parts" => ret.val = Kept(ret.flags, ret.special)

\* a general word with only the undefined bit 8 set and a special word with
\* all bits set gave MESSAGE_ATTACHED and MIDI_CONIFG_EMBEDDED alone
C7_Witness ==
    /\ ret.op = "from_parts"
    /\ ret.flags = 256
    /\ ret.special = U16Max
    /\ ret.val = {16, 19}
    /\ module.flags = {16, 19}

----------------------------------------------------------------------------
(* Range specification: the RangedU8 fields of the header *)

RangedFields ==
    {"global_volume", "sample_volume", "speed", "tempo", "pan_separation"}

\* the const parameters of each field's type
FieldLow(field) ==
    CASE field = "global_volume" -> GlobalVolumeMin
      [] field = "sample_volume" -> SampleVolumeMin
      [] field = "speed" -> SpeedMin
      [] field = "tempo" -> TempoMin
      [] field = "pan_separation" -> PanSeparationMin

FieldHigh(field) ==
    CASE field = "global_volume" -> GlobalVolumeMax
      [] field = "sample_volume" -> SampleVolumeMax
      [] field = "speed" -> SpeedMax
      [] field = "tempo" -> TempoMax
      [] field = "pan_separation" -> PanSeparationMax

\* the values the fields of the initial module are drawn from: the least and
\* the greatest inhabitant of each field's type
FieldProbes(field) ==
    LET values == RangedU8(FieldLow(field), FieldHigh(field))
    IN  {v \in values : (\A w \in values : v <= w) \/ (\A w \in values : v >= w)}

InitRanged ==
    /\ module \in
         { [BaseModule EXCEPT !.global_volume = g, !.sample_volume = v,
                              !.speed = s, !.tempo = t, !.pan_separation = p] :
             g \in FieldProbes("global_volume"), v \in FieldProbes("sample_volume"),
             s \in FieldProbes("speed"), t \in FieldProbes("tempo"),
             p \in FieldProbes("pan_separation") }
    /\ raw \in [field : RangedFields, byte : U8]
    /\ ret = NoCall
    /\ iters = [i \in IterIds |-> NoIter]

\* the construction of one header field from the header's raw byte
RangedNew ==
    /\ ret' = [op |-> "ranged_new", field |-> raw.field, raw |-> raw.byte,
               val |-> RangedU8_new(FieldLow(raw.field), FieldHigh(raw.field), raw.byte)]
    /\ UNCHANGED <<module, raw, iters>>

NextRanged == RangedNew

SpecRanged == InitRanged /\ [][NextRanged]_vars

\* the documented range of each field
DocumentedRange(field) ==
    CASE field = "global_volume" -> 0..128
      [] field = "sample_volume" -> 0..128
      [] field = "speed" -> 1..255
      [] field = "tempo" -> 31..255
      [] field = "pan_separation" -> 0..128

\* C6: constructing a bounded value fails for every byte outside the field's
\* range and succeeds with the same raw value for every byte inside, the
\* ranges being [0,128] for global_volume, sample_volume and pan_separation,
\* [1,255] for speed and [31,255] for tempo; every such Module field is in range.
C6_RangedConstruction ==
    /\ \A field \in RangedFields : module[field] \in DocumentedRange(field)
    /\ ret.op = "ranged_new" =>
         /\ ret.raw \notin DocumentedRange(ret.field) => ret.val = None
         /\ ret.raw \in DocumentedRange(ret.field) => ret.val = Some(ret.raw)

\* a speed of 0 was rejected
C6_Witness ==
    /\ ret.op = "ranged_new"
    /\ ret.field = "speed"
    /\ ret.raw = 0
    /\ ret.val = None

====
